---- MODULE Spec2Model ----
(***************************************************************************)
(* Model of datatableview/views/legacy.py: the column definition           *)
(* normalizer (get_field_definition), the structure descriptor             *)
(* (DatatableStructure), and the column resolution / row / response        *)
(* pipeline of LegacyDatatableMixin.                                       *)
(*                                                                         *)
(* Python values are tagged records.  Text is a sequence of one-character  *)
(* strings, so that the regular expressions and str.split of the source    *)
(* are computed character by character.                                    *)
(***************************************************************************)
EXTENDS Integers, Sequences, FiniteSets, TLC

VARIABLES
    field_definition,   \* get_field_definition: the raw declaration passed in
    fd_result,          \* get_field_definition: what the call produced
    view,               \* the view instance: its methods and its preload hook
    instance,           \* the row object handed to the resolvers
    column_index,       \* i of _get_resolver_method / get_column_data
    column,             \* _get_resolver_method: the normalized column
    declaration,        \* get_column_data: the raw column declaration (name)
    resolver_result,    \* _get_resolver_method: outcome and attribute lookups
    column_result,      \* get_column_data: outcome and calls made
    default_result,     \* _get_column_data_default: what the call produced
    columns,            \* options['columns'] of the row being assembled
    record_result,      \* get_record_data: outcome and calls made
    view_class,         \* the view class: kind and class attributes
    view_instances,     \* the attributes set on each view instance
    hook_calls,         \* how often get_datatable_options ran, per instance
    next_id,            \* identity of the next DatatableOptions object built
    seen,               \* the options each instance's operations obtained
    last_operation,     \* the operation each instance ran last
    object_list,        \* the record collection handed to the response assembler
    page_options,       \* the options of the request: columns, offset, page length
    request,            \* the request: GET's sEcho, and the two supplied counts
    response,           \* get_json_response_object: what the call produced
    structure_args,     \* DatatableStructure(ajax_url, options, model): arguments
    structure,          \* the DatatableStructure object once constructed
    column_info         \* get_column_info: what the call produced

fdVars == <<field_definition, fd_result>>
resolverVars == <<view, column_index, column, resolver_result>>
columnVars == <<instance, declaration, column_result, default_result>>
recordVars == <<columns, record_result>>
optionsVars == <<view_class, view_instances, hook_calls, next_id, seen, last_operation>>
pageVars == <<object_list, page_options, request, response>>
structureVars == <<structure_args, structure, column_info>>

vars == <<fdVars, resolverVars, columnVars, recordVars, optionsVars, pageVars,
          structureVars>>

-----------------------------------------------------------------------------
(* Python values *)

None == [ty |-> "NoneType"]
Str(cs) == [ty |-> "str", chars |-> cs]
List(xs) == [ty |-> "list", items |-> xs]
Tuple(xs) == [ty |-> "tuple", items |-> xs]
\* a plain callable; returns says what it gives back when it is called
Func(id, returns) == [ty |-> "function", id |-> id, returns |-> returns]

\* isinstance(v, (tuple, list))
IsTupleOrList(v) == v.ty \in {"tuple", "list"}

\* the outcome of a call: a returned value or a raised exception
Return(v) == [returned |-> v]
Raise(e) == [raised |-> e]
Returned(o) == "returned" \in DOMAIN o
Raised(o) == "raised" \in DOMAIN o
NotCalled == [pending |-> TRUE]
\* the value of a variable the running operation does not use
Unused == [unused |-> TRUE]

\* Python truthiness of the values used as names and callbacks
Truthy(v) ==
    CASE v.ty = "NoneType" -> FALSE
      [] v.ty = "str" -> v.chars # <<>>
      [] v.ty \in {"tuple", "list"} -> v.items # <<>>
      [] OTHER -> TRUE

-----------------------------------------------------------------------------
(* get_field_definition *)

FieldDefinitionTuple(pretty_name, fields, callback) ==
    [pretty_name |-> pretty_name, fields |-> fields, callback |-> callback]

IsNotNone(v) == v # None

\* tuple(name for name in field[1] if name is not None)   [mutant: keeps None]
SourceFieldsKeepNone(source) ==
    IF IsTupleOrList(source) THEN source.items ELSE <<source>>

\* field[1] of the normalized definition: wrapped when not a tuple or list,
\* then filtered of None entries, as a tuple
SourceFields(source) ==
    SelectSeq(IF IsTupleOrList(source) THEN source.items ELSE <<source>>, IsNotNone)

get_field_definition(fd) ==
    LET items == IF IsTupleOrList(fd) THEN fd.items ELSE <<fd>>
    IN  CASE Len(items) = 1 ->
               \* field = [None, field_definition, None]: the list itself is field[1]
               Return(FieldDefinitionTuple(None, SourceFields(List(items)), None))
          [] Len(items) = 2 ->
               Return(FieldDefinitionTuple(items[1], SourceFields(items[2]), None))
          [] Len(items) = 3 ->
               Return(FieldDefinitionTuple(items[1], SourceFields(items[2]), items[3]))
          [] OTHER -> Raise("ValueError")

-----------------------------------------------------------------------------
(* Text *)

Alnum ==
    {"a", "b", "c", "d", "e", "f", "g", "h", "i", "j", "k", "l", "m", "n", "o",
     "p", "q", "r", "s", "t", "u", "v", "w", "x", "y", "z",
     "A", "B", "C", "D", "E", "F", "G", "H", "I", "J", "K", "L", "M", "N", "O",
     "P", "Q", "R", "S", "T", "U", "V", "W", "X", "Y", "Z",
     "0", "1", "2", "3", "4", "5", "6", "7", "8", "9"}

\* a character matched by [\W_]
IsNonWordOrUnderscore(c) == c \notin Alnum

RECURSIVE DropRun(_)
\* the rest of the text after a leading run of [\W_] characters
DropRun(cs) ==
    IF cs # <<>> /\ IsNonWordOrUnderscore(Head(cs)) THEN DropRun(Tail(cs)) ELSE cs

RECURSIVE Mangle(_)
\* re.sub(r'[\W_]+', '_', name)
Mangle(cs) ==
    IF cs = <<>> THEN <<>>
    ELSE IF IsNonWordOrUnderscore(Head(cs)) THEN <<"_">> \o Mangle(DropRun(Tail(cs)))
    ELSE <<Head(cs)>> \o Mangle(Tail(cs))

\* the text of an object with no text form of its own, as in <function f>
ReprText == <<"<", "o", "b", "j", "e", "c", "t", ">">>

DigitChars == <<"0", "1", "2", "3", "4", "5", "6", "7", "8", "9">>

RECURSIVE Decimal(_)
\* '%d' % i, for i >= 0
Decimal(i) ==
    IF i < 10 THEN <<DigitChars[i + 1]>>
    ELSE Decimal(i \div 10) \o <<DigitChars[(i % 10) + 1]>>

\* django.utils.encoding.force_text(s, errors="ignore"): text is returned as it
\* is, anything else goes through six.text_type, so None becomes u'None'
force_text(s) ==
    CASE s.ty = "str" -> s.chars
      [] s.ty = "NoneType" -> <<"N", "o", "n", "e">>
      [] OTHER -> ReprText

\* 'get_column_%s_data' % middle
GetColumnData(middle) ==
    <<"g", "e", "t", "_", "c", "o", "l", "u", "m", "n", "_">> \o middle \o <<"_", "d", "a", "t", "a">>

-----------------------------------------------------------------------------
(* The view instance and _get_resolver_method *)

\* a bound method of the view, as getattr(self, name) returns it
Method(name) == [ty |-> "method", name |-> name]

\* getattr(self, name, None) is a method
HasMethod(v, name) == name \in DOMAIN v.methods

DefaultResolver == Method(<<"_", "g", "e", "t", "_", "c", "o", "l", "u", "m", "n", "_", "d", "a", "t", "a", "_", "d", "e", "f", "a", "u", "l", "t">>)

\* lines 452-455: the name the method lookup starts from
LookupName(col) ==
    LET name == force_text(col.pretty_name)
    IN  IF name # <<>> THEN Return(name)
        ELSE IF col.fields = <<>> THEN Raise("IndexError")
        ELSE Return(col.fields[1].chars)

Resolver(is_custom, f) == [is_custom |-> is_custom, f |-> f]

\* the outcome of _get_resolver_method(i, column) with the attribute names it
\* passed to getattr, in order
_get_resolver_method(v, i, col) ==
    LET callback == col.callback
    IN  IF Truthy(callback) THEN
            IF callback.ty = "function" THEN
                [outcome |-> Return(Resolver(TRUE, callback)), lookups |-> <<>>]
            ELSE IF HasMethod(v, callback.chars) THEN
                [outcome |-> Return(Resolver(TRUE, Method(callback.chars))),
                 lookups |-> <<callback.chars>>]
            ELSE [outcome |-> Raise("AttributeError"), lookups |-> <<callback.chars>>]
        ELSE
            LET name == LookupName(col)
            IN  IF Raised(name) THEN [outcome |-> name, lookups |-> <<>>]
                ELSE
                    LET by_name == GetColumnData(Mangle(name.returned))
                        by_index == GetColumnData(Decimal(i))
                    IN  IF HasMethod(v, by_name) THEN
                            [outcome |-> Return(Resolver(TRUE, Method(by_name))),
                             lookups |-> <<by_name>>]
                        ELSE IF HasMethod(v, by_index) THEN
                            [outcome |-> Return(Resolver(TRUE, Method(by_index))),
                             lookups |-> <<by_name, by_index>>]
                        ELSE
                            [outcome |-> Return(Resolver(FALSE, DefaultResolver)),
                             lookups |-> <<by_name, by_index>>]

-----------------------------------------------------------------------------
(* Row objects and the default attribute-chain resolver *)

\* a row object or a related object: its attributes, its text form, whether it
\* is a django.db.models.Model, and its primary key
Object(attrs, unicode, is_model, pk) ==
    [ty |-> "object", attrs |-> attrs, unicode |-> unicode, is_model |-> is_model,
     pk |-> pk]

\* an attribute whose descriptor raises on access (a missing related object)
RaisesOnAccess(exc) == [ty |-> "descriptor", exc |-> exc]

\* a callable attribute value: alters_data is "absent", "True" or "False"
Callable(result, alters_data, is_manager) ==
    [ty |-> "callable", result |-> result, alters_data |-> alters_data,
     is_manager |-> is_manager]

\* six.text_type(value)
text_type(value) ==
    CASE value.ty = "str" -> value.chars
      [] value.ty = "NoneType" -> <<"N", "o", "n", "e">>
      [] value.ty = "object" -> value.unicode
      [] OTHER -> ReprText

\* getattr(obj, bit)
GetAttr(obj, bit) ==
    IF obj.ty = "object" /\ bit \in DOMAIN obj.attrs THEN
        IF obj.attrs[bit].ty = "descriptor" THEN Raise(obj.attrs[bit].exc)
        ELSE Return(obj.attrs[bit])
    ELSE Raise("AttributeError")

\* the exception class names bound where chain_lookup's except clause is
\* evaluated: the builtins; the module imports Model and Manager from
\* django.db.models and never binds ObjectDoesNotExist
BoundExceptionNames == {"AttributeError", "NameError", "IndexError", "ValueError"}

\* except (names): the tuple is evaluated when an exception reaches the
\* clause, and an unbound name in it raises NameError in place of the match
ExceptClause(exc, names) ==
    IF ~(names \subseteq BoundExceptionNames) THEN "NameError"
    ELSE IF exc \in names THEN "caught"
    ELSE exc

chain_lookup(obj, bit) ==
    LET got == GetAttr(obj, bit)
    IN  IF Raised(got) THEN
            LET e == ExceptClause(got.raised, {"AttributeError", "ObjectDoesNotExist"})
            IN  IF e = "caught" THEN Return(None) ELSE Raise(e)
        ELSE
            LET value == got.returned
            IN  IF value.ty = "callable" THEN
                    IF value.is_manager THEN Return(value)
                    ELSE IF value.alters_data # "True" THEN Return(value.result)
                    ELSE Return(value)
                ELSE Return(value)

RECURSIVE reduce(_, _)
\* reduce(chain_lookup, [obj] + bits)
reduce(obj, bits) ==
    IF bits = <<>> THEN Return(obj)
    ELSE LET r == chain_lookup(obj, Head(bits))
         IN  IF Raised(r) THEN r ELSE reduce(r.returned, Tail(bits))

RECURSIVE SplitFrom(_, _)
\* the pieces of acc + cs when cs is split at every '__', left to right
SplitFrom(cs, acc) ==
    IF cs = <<>> THEN <<acc>>
    ELSE IF Len(cs) >= 2 /\ cs[1] = "_" /\ cs[2] = "_" THEN
        <<acc>> \o SplitFrom(SubSeq(cs, 3, Len(cs)), <<>>)
    ELSE SplitFrom(Tail(cs), Append(acc, Head(cs)))

\* field_name.split('__')
split(field_name) == SplitFrom(field_name, <<>>)

RECURSIVE join_without_separator(_)
\* u''.join(map(six.text_type, values))   [mutant: the values run together]
join_without_separator(values) ==
    IF values = <<>> THEN <<>>
    ELSE text_type(values[1]) \o join_without_separator(Tail(values))

RECURSIVE join(_)
\* u' '.join(map(six.text_type, values))
join(values) ==
    IF values = <<>> THEN <<>>
    ELSE IF Len(values) = 1 THEN text_type(values[1])
    ELSE text_type(values[1]) \o <<" ">> \o join(Tail(values))

RECURSIVE CollectValues(_, _)
\* the loop of _get_column_data_default over column.fields: the values list
CollectValues(inst, fields) ==
    IF fields = <<>> THEN Return(<<>>)
    ELSE
        LET \* one pass of the loop, given what reduce gave for the field
            Pass(r) ==
                IF Raised(r) THEN r
                ELSE
                    LET Keep(value, rest) ==
                            IF Raised(rest) THEN rest
                            ELSE IF value # None THEN Return(<<value>> \o rest.returned)
                            ELSE rest
                    IN  Keep(IF r.returned.ty = "object" /\ r.returned.is_model
                             THEN Str(text_type(r.returned))
                             ELSE r.returned,
                             CollectValues(inst, Tail(fields)))
        IN  Pass(reduce(inst, split(Head(fields).chars)))

_get_column_data_default(inst, col) ==
    LET Joined(values) ==
            IF Raised(values) THEN values
            ELSE
                LET Pair(value) == Return(Tuple(<<value, value>>))
                IN  Pair(IF Len(values.returned) = 1 THEN values.returned[1]
                         ELSE Str(join(values.returned)))
    IN  Joined(CollectValues(inst, col.fields))

-----------------------------------------------------------------------------
(* get_column_data and get_record_data *)

\* the index of the first ">" of cs at or after position k, or 0
FirstClose(cs, k) ==
    IF \E j \in k..Len(cs) : cs[j] = ">"
    THEN CHOOSE j \in k..Len(cs) : cs[j] = ">" /\ \A m \in k..(j - 1) : cs[m] # ">"
    ELSE 0

\* a match of <[^>]+> starts at position k of cs
TagAt(cs, k) == cs[k] = "<" /\ FirstClose(cs, k + 1) >= k + 2

\* re.search(r'<[^>]+>', cs) finds a match
HasTag(cs) == \E k \in 1..Len(cs) : TagAt(cs, k)

RECURSIVE StripFrom(_, _, _)
StripFrom(cs, k, first_only) ==
    IF k > Len(cs) THEN <<>>
    ELSE IF TagAt(cs, k) THEN
        IF first_only THEN SubSeq(cs, FirstClose(cs, k + 1) + 1, Len(cs))
        ELSE StripFrom(cs, FirstClose(cs, k + 1) + 1, first_only)
    ELSE <<cs[k]>> \o StripFrom(cs, k + 1, first_only)

\* re.sub(r'<[^>]+>', '', cs, count=1)   [mutant: only the first tag is removed]
StripFirstTag(cs) == StripFrom(cs, 1, TRUE)

\* re.sub(r'<[^>]+>', '', cs)
StripTags(cs) == StripFrom(cs, 1, FALSE)

\* a dict, as a function from its keys
Dict(map) == [ty |-> "dict", map |-> map]

\* _get_preloaded_data(instance), given what preload_record_data returned
_get_preloaded_data(preloaded_data) ==
    CASE preloaded_data.ty = "dict" ->
            [args |-> <<>>, kwargs |-> preloaded_data.map]
      [] IsTupleOrList(preloaded_data) ->
            [args |-> preloaded_data.items, kwargs |-> <<>>]
      [] OTHER ->
            [args |-> <<preloaded_data>>, kwargs |-> <<>>]

\* kwargs with kwargs[key] = value
SetItem(kwargs, key, value) ==
    [k \in DOMAIN kwargs \cup {key} |-> IF k = key THEN value ELSE kwargs[k]]

\* what a custom resolver of the view or an explicit callable returns when it
\* is called: a fixed value, or the default_value it was handed
ReturnsValue(value) == [kind |-> "value", value |-> value]
ReturnsDefaultValue == [kind |-> "default_value"]

\* f(instance, *args, **kwargs)
CallResolver(v, f, kwargs) ==
    LET body == IF f.ty = "function" THEN f.returns ELSE v.methods[f.name]
    IN  IF body.kind = "default_value" THEN kwargs["default_value"] ELSE body.value

\* the calls a handler makes, in order
PreloadCall == [call |-> "preload_record_data"]
ColumnCall(i) == [call |-> "get_column_data", i |-> i]
ResolverCall(i, f, args, kwargs) ==
    [call |-> "resolver", i |-> i, f |-> f, args |-> args, kwargs |-> kwargs]
ColumnReturn(i, values, resolved_by) ==
    [call |-> "return", i |-> i, values |-> values, resolved_by |-> resolved_by]

\* lines 377-383: a result that is no tuple or list becomes a pair
AsPair(values) ==
    IF IsTupleOrList(values) THEN values
    ELSE Tuple(<<values, Str(StripTags(text_type(values)))>>)

\* get_column_data(i, name, instance): its outcome and the calls it made
get_column_data(v, i, name, inst) ==
    LET start == <<ColumnCall(i)>>
        \* lines 373-385, for a custom resolver f
        Custom(f, pre, default_value) ==
            LET Call(kwargs) ==
                    LET Finish(values, pair) ==
                            [outcome |-> Return(pair),
                             calls |-> start \o <<PreloadCall,
                                 ResolverCall(i, f, pre.args, kwargs),
                                 ColumnReturn(i, pair,
                                     IF IsTupleOrList(values) THEN "custom pair"
                                     ELSE "custom scalar")>>]
                        Made(values) == Finish(values, AsPair(values))
                    IN  Made(CallResolver(v, f, kwargs))
            IN  Call(SetItem(SetItem(SetItem(pre.kwargs,
                         "default_value", default_value),
                         "field_data", name), "view", Str(<<"self">>)))
        \* lines 365-372: the default value of a custom column
        Preloaded(f, dflt) ==
            IF Raised(dflt) THEN
                LET Handled(caught) ==
                        IF caught # "caught" THEN
                            [outcome |-> Raise(caught), calls |-> start \o <<PreloadCall>>]
                        ELSE Custom(f, _get_preloaded_data(v.preload), None)
                IN  Handled(ExceptClause(dflt.raised, {"AttributeError"}))
            ELSE Custom(f, _get_preloaded_data(v.preload), dflt.returned.items[2])
        \* line 373, for the default resolver
        Default(values) ==
            IF Raised(values) THEN [outcome |-> values, calls |-> start]
            ELSE
                LET Finish(pair) ==
                        [outcome |-> Return(pair),
                         calls |-> start \o <<ColumnReturn(i, pair, "default")>>]
                IN  Finish(AsPair(values.returned))
        Resolve(col, found) ==
            IF Raised(found) THEN [outcome |-> found, calls |-> start]
            ELSE IF found.returned.is_custom
            THEN Preloaded(found.returned.f, _get_column_data_default(inst, col))
            ELSE Default(_get_column_data_default(inst, col))
        Normalized(col) ==
            IF Raised(col) THEN [outcome |-> col, calls |-> start]
            ELSE Resolve(col.returned, _get_resolver_method(v, i, col.returned).outcome)
    IN  Normalized(get_field_definition(name))

RECURSIVE RecordColumns(_, _, _, _)
\* the loop of get_record_data from column i on: the cells and the calls
RecordColumns(v, cols, i, inst) ==
    IF i >= Len(cols) THEN [outcome |-> Return(<<>>), calls |-> <<>>]
    ELSE
        LET Cell(one) ==
                IF Raised(one.outcome) THEN one
                ELSE
                    LET Cells(cell, rest) ==
                            [outcome |-> IF Raised(rest.outcome) THEN rest.outcome
                                         ELSE Return(<<cell>> \o rest.outcome.returned),
                             calls |-> one.calls \o rest.calls]
                    IN  Cells(text_type(one.outcome.returned.items[1]),
                              RecordColumns(v, cols, i + 1, inst))
        IN  Cell(get_column_data(v, i, cols[i + 1], inst))

\* get_record_data(obj): the row (DT_RowId and the cells "0", "1", ...) and
\* the calls made
get_record_data(v, cols, obj) ==
    LET Row(cells) ==
            [outcome |-> IF Raised(cells.outcome) THEN cells.outcome
                         ELSE Return([DT_RowId |-> obj.pk,
                                      cells |-> cells.outcome.returned]),
             calls |-> cells.calls]
    IN  Row(RecordColumns(v, cols, 0, obj))

-----------------------------------------------------------------------------
(* _get_datatable_options: the once-per-instance options *)

Absent == [absent |-> TRUE]

\* the raw options a view class declares in datatable_options: one dict, held
\* by the class
ClassOptions == [ty |-> "dict", ref |-> "datatable_options"]

\* DatatableOptions(self.model, self.request.GET, ...): a new object
DatatableOptions(id) == [ty |-> "DatatableOptions", id |-> id]

\* the state _get_datatable_options reads and writes
Heap(cls, insts, calls, id) ==
    [cls |-> cls, insts |-> insts, calls |-> calls, id |-> id]

\* getattr(self, attr), looked up on the instance and then on its class
SelfAttr(h, v, attr) ==
    IF h.insts[v][attr] # Absent THEN h.insts[v][attr] ELSE h.cls[attr]

\* type(self).attr = value   [mutant: the memo is put on the class]
SetClassAttr(h, v, attr, value) ==
    [h EXCEPT !.cls[attr] = value]

\* self.attr = value
SetSelfAttr(h, v, attr, value) ==
    [h EXCEPT !.insts[v][attr] = value]

\* self.get_datatable_options(): returns self.datatable_options
get_datatable_options(h, v) ==
    [heap |-> [h EXCEPT !.calls[v] = @ + 1], outcome |-> Return(h.cls.datatable_options)]

\* self.get_queryset().model: MultipleObjectMixin raises ImproperlyConfigured
\* when the view has neither a queryset nor a model
QuerysetModel(h, v) ==
    IF h.cls.queryset # None THEN Return(h.cls.queryset)
    ELSE IF SelfAttr(h, v, "model") # None THEN Return(SelfAttr(h, v, "model"))
    ELSE Raise("ImproperlyConfigured")

\* LegacyDatatableMixin._get_datatable_options
LegacyGetOptions(h, v) ==
    IF SelfAttr(h, v, "_datatable_options") # Absent THEN
        [heap |-> h, outcome |-> Return(SelfAttr(h, v, "_datatable_options"))]
    ELSE
        LET qm == QuerysetModel(h, v)
        IN  IF SelfAttr(h, v, "model") = None /\ Raised(qm) THEN
                [heap |-> h, outcome |-> qm]
            ELSE
                LET h1 == IF SelfAttr(h, v, "model") = None
                          THEN SetSelfAttr(h, v, "model", qm.returned) ELSE h
                    hooked == get_datatable_options(h1, v)
                    options == DatatableOptions(hooked.heap.id)
                    h2 == [hooked.heap EXCEPT !.id = @ + 1]
                    h3 == SetSelfAttr(h2, v, "_datatable_options", options)
                IN  [heap |-> h3, outcome |-> Return(SelfAttr(h3, v, "_datatable_options"))]

\* LegacyConfigurationDatatableMixin._get_datatable_options: the hook's result
\* is stored before its columns are read, so a hook that returned None leaves
\* None stored and raises AttributeError on .get
ConfigurationGetOptions(h, v) ==
    IF SelfAttr(h, v, "_datatable_options") # Absent THEN
        [heap |-> h, outcome |-> Return(SelfAttr(h, v, "_datatable_options"))]
    ELSE
        LET hooked == get_datatable_options(h, v)
            h1 == SetSelfAttr(hooked.heap, v, "_datatable_options", hooked.outcome.returned)
        IN  IF hooked.outcome.returned = None
            THEN [heap |-> h1, outcome |-> Raise("AttributeError")]
            ELSE [heap |-> h1, outcome |-> Return(SelfAttr(h1, v, "_datatable_options"))]

_get_datatable_options(h, v) ==
    IF h.cls.kind = "LegacyDatatableMixin" THEN LegacyGetOptions(h, v)
    ELSE ConfigurationGetOptions(h, v)

-----------------------------------------------------------------------------
(* paginate_object_list and get_json_response_object *)

Min(a, b) == IF a < b THEN a ELSE b
Max(a, b) == IF a > b THEN a ELSE b

\* xs[b:e], with Python's handling of negative and out-of-range indices
PySlice(xs, b, e) ==
    LET n == Len(xs)
        lo == IF b < 0 THEN Max(n + b, 0) ELSE Min(b, n)
        hi == IF e < 0 THEN Max(n + e, 0) ELSE Min(e, n)
    IN  IF lo < hi THEN SubSeq(xs, lo + 1, hi) ELSE <<>>

\* object_list[:page_length]   [mutant: the page always starts at the first
\* record and the offset is lost]
paginate_object_list_no_offset(opts, objs) ==
    [returned |-> IF opts.page_length # -1
                  THEN PySlice(objs, 0, opts.page_length)
                  ELSE objs,
     object_list |-> objs]

\* paginate_object_list(object_list): the page, and object_list as the call
\* leaves it (a slice is a new list)
paginate_object_list(opts, objs) ==
    [returned |-> IF opts.page_length # -1
                  THEN PySlice(objs, opts.start_offset,
                               opts.start_offset + opts.page_length)
                  ELSE objs,
     object_list |-> objs]

RECURSIVE RecordsData(_, _, _)
\* [self.get_record_data(obj) for obj in object_list_page]
RecordsData(v, cols, page) ==
    IF page = <<>> THEN Return(<<>>)
    ELSE
        LET Listed(row) ==
                IF Raised(row) THEN row
                ELSE
                    LET More(rest) ==
                            IF Raised(rest) THEN rest
                            ELSE Return(<<row.returned>> \o rest.returned)
                    IN  More(RecordsData(v, cols, Tail(page)))
        IN  Listed(get_record_data(v, cols, Head(page)).outcome)

\* get_json_response_object(object_list, total, filtered_total)
get_json_response_object(v, opts, req, objs, total, filtered_total) ==
    LET Respond(paged) ==
            LET Body(rows) ==
                    [outcome |-> IF Raised(rows) THEN rows
                                 ELSE Return([sEcho |-> req.sEcho,
                                              iTotalRecords |-> total,
                                              iTotalDisplayRecords |-> filtered_total,
                                              aaData |-> rows.returned]),
                     object_list |-> paged.object_list]
            IN  Body(RecordsData(v, opts.columns, paged.returned))
    IN  Respond(paginate_object_list(opts, objs))

-----------------------------------------------------------------------------
(* DatatableStructure *)

RECURSIVE lstrip(_)
\* name.lstrip('-+')
lstrip(cs) ==
    IF cs # <<>> /\ Head(cs) \in {"-", "+"} THEN lstrip(Tail(cs)) ELSE cs

\* model_fields of get_column_info: the row type's field names, none without
\* a model
ModelFields(model) == IF model = None THEN {} ELSE DOMAIN model.fields

\* the nesting of the specification's wording   [mutant: the first source
\* field names the ordering only when no display name is given]
OrderingNameUnlessPretty(col, model) ==
    IF /\ col.fields # <<>>
       /\ col.fields[1].ty = "str"
       /\ col.fields[1].chars \in ModelFields(model)
       /\ ~Truthy(col.pretty_name)
    THEN col.fields[1]
    ELSE col.pretty_name

\* lines 148-155: ordering_name of a normalized column
OrderingName(col, model) ==
    IF /\ col.fields # <<>>
       /\ col.fields[1].ty = "str"
       /\ col.fields[1].chars \in ModelFields(model)
    THEN col.fields[1]
    ELSE col.pretty_name

\* lines 146-153: pretty_name of a normalized column, the field's verbose_name
\* when it names a model field and no display name was given
PrettyName(col, model) ==
    IF /\ col.fields # <<>>
       /\ col.fields[1].ty = "str"
       /\ col.fields[1].chars \in ModelFields(model)
       /\ ~Truthy(col.pretty_name)
    THEN Str(model.fields[col.fields[1].chars])
    ELSE col.pretty_name

\* options.get_column_index(plain_name): the index of the first column whose
\* ordering name is plain_name, -1 when there is none
get_column_index(opts, model, plain_name) ==
    LET hits == {k \in 1..Len(opts.columns) :
                    OrderingName(get_field_definition(opts.columns[k]).returned, model)
                        = Str(plain_name)}
    IN  IF hits = {} THEN -1
        ELSE (CHOOSE k \in hits : \A j \in hits : k <= j) - 1

ColumnOrderingTuple(order, column_index_, direction) ==
    [order |-> order, column_index |-> column_index_, direction |-> direction]

RECURSIVE BuildOrderingDense(_, _, _, _)
\* order counted over the recorded entries only   [mutant: a skipped entry
\* shifts the positions of the entries after it]
BuildOrderingDense(opts, model, i, ordering) ==
    IF i >= Len(opts.ordering) THEN Return(ordering)
    ELSE
        LET signed == opts.ordering[i + 1].chars
            plain_name == lstrip(signed)
            index == get_column_index(opts, model, plain_name)
        IN  IF index = -1 THEN BuildOrderingDense(opts, model, i + 1, ordering)
            ELSE IF signed = <<>> THEN Raise("IndexError")
            ELSE
                LET direction == IF signed[1] = "-" THEN "desc" ELSE "asc"
                    entry == ColumnOrderingTuple(Cardinality(DOMAIN ordering), index,
                                                 direction)
                IN  BuildOrderingDense(opts, model, i + 1,
                        [k \in DOMAIN ordering \cup {plain_name} |->
                            IF k = plain_name THEN entry ELSE ordering[k]])

RECURSIVE BuildOrdering(_, _, _, _)
\* the loop of DatatableStructure.__init__ from position i on, over the
\* mapping built so far
BuildOrdering(opts, model, i, ordering) ==
    IF i >= Len(opts.ordering) THEN Return(ordering)
    ELSE
        LET signed == opts.ordering[i + 1].chars
            plain_name == lstrip(signed)
            index == get_column_index(opts, model, plain_name)
        IN  IF index = -1 THEN BuildOrdering(opts, model, i + 1, ordering)
            ELSE IF signed = <<>> THEN Raise("IndexError")
            ELSE
                LET direction == IF signed[1] = "-" THEN "desc" ELSE "asc"
                    entry == ColumnOrderingTuple(i, index, direction)
                IN  BuildOrdering(opts, model, i + 1,
                        [k \in DOMAIN ordering \cup {plain_name} |->
                            IF k = plain_name THEN entry ELSE ordering[k]])

\* DatatableStructure(ajax_url, options, model)
DatatableStructure(opts, model) ==
    LET ordering == BuildOrdering(opts, model, 0, <<>>)
    IN  IF Raised(ordering) THEN ordering
        ELSE Return([options |-> opts, model |-> model, ordering |-> ordering.returned])

_javascript_boolean(b) == IF b THEN <<"t", "r", "u", "e">> ELSE <<"f", "a", "l", "s", "e">>

InList(x, xs) == \E k \in 1..Len(xs) : xs[k] = x

HasOrdering(st, name) == name.ty = "str" /\ name.chars \in DOMAIN st.ordering

\* ','.join(map(six.text_type, ordering_tuple))
SortingText(t) ==
    Decimal(t.order) \o <<",">> \o Decimal(t.column_index) \o <<",">>
    \o (IF t.direction = "desc" THEN <<"d", "e", "s", "c">> ELSE <<"a", "s", "c">>)

\* get_column_attributes(name): the attributes, by key
get_column_attributes(st, name) ==
    [k \in {"data-sortable", "data-visible"}
          \cup (IF HasOrdering(st, name) THEN {"data-sorting"} ELSE {}) |->
        CASE k = "data-sortable" ->
                Str(_javascript_boolean(~InList(name, st.options.unsortable_columns)))
          [] k = "data-visible" ->
                Str(_javascript_boolean(~InList(name, st.options.hidden_columns)))
          [] OTHER -> Str(SortingText(st.ordering[name.chars]))]

\* ColumnInfoTuple(pretty_name, flatatt(attributes)), the attributes as the
\* mapping flatatt renders, with the ordering_name they were computed from
ColumnInfoTuple(pretty_name, attrs, ordering_name) ==
    [pretty_name |-> pretty_name, attrs |-> attrs, ordering_name |-> ordering_name]

\* get_column_info(): one entry per column of options['columns'], in order
get_column_info(st) ==
    [k \in 1..Len(st.options.columns) |->
        LET col == get_field_definition(st.options.columns[k]).returned
            ordering_name == OrderingName(col, st.model)
        IN  ColumnInfoTuple(PrettyName(col, st.model),
                            get_column_attributes(st, ordering_name),
                            ordering_name)]

-----------------------------------------------------------------------------
(* Bounds and input sets *)

MaxDeclarationLength == 4
MaxColumnIndex == 1
MaxTextLength == 6
MaxColumns == 2
MaxOperations == 3
NumViews == 2
MaxRecords == 4
MaxOffset == 5
MaxPageLength == 3
MaxOrdering == 2
MaxFields == 3

\* all sequences over S of length 0..n
SeqsUpTo(S, n) == UNION {[1..k -> S] : k \in 0..n}

A_ == Str(<<"a">>)
B_ == Str(<<"b">>)
Echo == Func(1, ReturnsDefaultValue)

\* what a raw declaration is made of: names, None, the empty text, a source
\* list with None entries, a source tuple, a callable
DeclarationElements ==
    {None, Str(<<>>), A_, B_, List(<<None, B_, None, A_>>), Tuple(<<A_>>), Echo}

RawDeclarations ==
    {e \in DeclarationElements : ~IsTupleOrList(e)}
    \cup {List(xs) : xs \in SeqsUpTo(DeclarationElements, MaxDeclarationLength)}
    \cup {Tuple(xs) : xs \in SeqsUpTo(DeclarationElements, MaxDeclarationLength)}

STREET_NAME == Str(<<"s", "t", "r", "e", "e", "t", "_", "n", "a", "m", "e">>)
STREET__NAME == Str(<<"s", "t", "r", "e", "e", "t", "_", "_", "n", "a", "m", "e">>)
REGION == Str(<<"R", "e", "g", "i", "o", "n", ":", " ", "S", "u", "b", "d", "i", "v", "i", "s", "i", "o", "n", " ", "T", "y", "p", "e">>)
ZERO == Str(<<"0">>)
CB == Str(<<"c", "b">>)

\* the declarations the dispatcher is run on: every combination of a display
\* name, a source list and a resolver override
ResolverDeclarations ==
    {STREET_NAME}
    \cup {Tuple(<<p, List(fs), cb>>) :
            p \in {None, Str(<<>>), REGION, ZERO},
            fs \in {<<>>, <<STREET_NAME>>, <<STREET__NAME, A_>>},
            cb \in {None, Str(<<>>), CB, Echo}}

ResolverColumns == {get_field_definition(d).returned : d \in ResolverDeclarations}

\* the attribute names a view of the model may define as methods
MethodNames ==
    {GetColumnData(<<"s", "t", "r", "e", "e", "t", "_", "n", "a", "m", "e">>),
     GetColumnData(<<"R", "e", "g", "i", "o", "n", "_", "S", "u", "b", "d", "i", "v", "i", "s", "i", "o", "n", "_", "T", "y", "p", "e">>),
     GetColumnData(<<"N", "o", "n", "e">>),
     GetColumnData(<<"0">>),
     GetColumnData(<<"1">>),
     CB.chars}

ViewWith(names, returns, preload) ==
    [methods |-> [n \in names |-> returns], preload |-> preload]

ResolverViews ==
    {ViewWith(names, ReturnsDefaultValue, Tuple(<<>>)) : names \in SUBSET MethodNames}

\* every text over "<", ">" and "a" of at most MaxTextLength characters
Texts == SeqsUpTo({"<", ">", "a"}, MaxTextLength)

MARKUP == Str(<<"<", "b", ">", "x", "<", "/", "b", ">">>)

\* the values the last attribute of a chain may hold
LeafValues ==
    {None, Str(<<"x">>), MARKUP,
     Callable(Str(<<"y">>), "absent", FALSE),
     Callable(Str(<<"y">>), "False", FALSE),
     Callable(Str(<<"y">>), "True", FALSE),
     Callable(Str(<<"y">>), "absent", TRUE),
     Object(<<>>, <<"m">>, TRUE, 7)}

\* what the attribute b of the related object a may be
RelatedValues ==
    {None, RaisesOnAccess("ObjectDoesNotExist")}
    \cup {Object([k \in {<<"c">>} |-> leaf], <<"r">>, TRUE, 3) : leaf \in LeafValues}

RowWith(a_attrs) ==
    Object([k \in {<<"a">>, <<"n">>} |->
               IF k = <<"a">> THEN Object(a_attrs, <<"o">>, TRUE, 2)
               ELSE Str(<<"n", "a", "m", "e">>)],
           <<"r", "o", "w">>, TRUE, 1)

\* the row objects: a.b missing, None, raising, or leading to a.b.c
Rows ==
    {RowWith(<<>>)}
    \cup {RowWith([k \in {<<"b">>} |-> b]) : b \in RelatedValues}

PATH_ABC == Str(<<"a", "_", "_", "b", "_", "_", "c">>)
PATH_AB == Str(<<"a", "_", "_", "b">>)
PATH_N == Str(<<"n">>)
PATH_Z == Str(<<"z">>)
Paths == {PATH_ABC, PATH_AB, PATH_N, PATH_Z}

PRETTY == Str(<<"P">>)

PATH_M == Str(<<"m">>)

\* the values an attribute of the row may hold for the default resolver: None,
\* text, a method, a method that alters data, and a related model instance
DefaultLeafValues ==
    {None, Str(<<"x">>),
     Callable(Str(<<"y">>), "absent", FALSE),
     Callable(Str(<<"y">>), "True", FALSE),
     Object(<<>>, <<"m">>, TRUE, 7)}

\* rows with the attributes n and m, and a related object a whose b is None or
\* text
DefaultRows ==
    {Object([k \in {<<"a">>, <<"n">>, <<"m">>} |->
                CASE k = <<"a">> -> Object([j \in {<<"b">>} |-> b], <<"o">>, TRUE, 2)
                  [] k = <<"n">> -> n
                  [] OTHER -> m],
            <<"r", "o", "w">>, TRUE, 1) :
        n \in DefaultLeafValues, m \in DefaultLeafValues, b \in {None, Str(<<"z">>)}}

\* normalized columns of up to MaxFields source fields, z naming no attribute
DefaultColumns ==
    {get_field_definition(Tuple(<<PRETTY, List(fields)>>)).returned :
        fields \in SeqsUpTo({PATH_N, PATH_M, PATH_AB, PATH_Z}, MaxFields)}
EchoPair == Func(2, ReturnsValue(Tuple(<<MARKUP, MARKUP>>)))

\* declarations resolved by the default resolver unless the view has a method
\* for them, and declarations with a resolver override
ColumnDeclarations ==
    Paths
    \cup {Tuple(<<PRETTY, p>>) : p \in Paths}
    \cup {Tuple(<<PRETTY, List(<<PATH_N, None, PATH_ABC>>)>>)}
    \cup {Tuple(<<PRETTY, p, cb>>) : p \in Paths, cb \in {Echo, EchoPair, CB}}

\* declarations whose override returns one text, whatever the row
ScalarDeclarations ==
    {Tuple(<<PRETTY, PATH_N, Func(3, ReturnsValue(Str(t)))>>) : t \in Texts}

PreloadValues ==
    {Tuple(<<>>), List(<<A_, B_>>), A_, Dict([k \in {"extra"} |-> B_])}

\* views that define the method cb, with or without get_column_0_data
ColumnViews ==
    {[methods |-> [n \in {CB.chars} \cup extra |->
                      IF n = CB.chars THEN ReturnsDefaultValue ELSE ReturnsValue(MARKUP)],
      preload |-> p] :
        extra \in {{}, {GetColumnData(<<"0">>)}}, p \in PreloadValues}

\* the columns of the table a row is assembled for
RecordDeclarations ==
    {PATH_N, PATH_ABC, Tuple(<<PRETTY, PATH_N, Echo>>), Tuple(<<PRETTY, PATH_N, CB>>)}

ColumnLists == SeqsUpTo(RecordDeclarations, MaxColumns) \ {<<>>}

\* a record of the collection: its primary key, and its attribute n
PageRow(pk) ==
    Object([k \in {<<"n">>} |-> Str(Decimal(pk))], <<"r", "o", "w">>, TRUE, pk)

\* the record collections: every list of at most MaxRecords of two records
ObjectLists == SeqsUpTo({PageRow(1), PageRow(2)}, MaxRecords)

\* the options a request resolves to: start_offset >= 0, and page_length -1
\* or at least the minimum page length
PageOptions ==
    [columns : {<<PATH_N>>, <<PATH_N, Tuple(<<PRETTY, PATH_N, Echo>>)>>},
     start_offset : 0..MaxOffset,
     page_length : {-1} \cup 1..MaxPageLength]

Requests ==
    [sEcho : {None, Str(<<"7">>)},
     total : {0, 100},
     filtered_total : {0, 60, 101}]

NAME == Str(<<"n", "a", "m", "e">>)
ZZ == Str(<<"z", "z">>)

\* the row type of the table: one field, name, labelled "Full name"
RowModel == [fields |-> [f \in {NAME.chars} |-> <<"F", "u", "l", "l", " ", "n", "a", "m", "e">>]]

StructureDeclarations ==
    {NAME, ZZ, Tuple(<<PRETTY, NAME>>), Tuple(<<PRETTY, ZZ>>), Tuple(<<PRETTY, None>>)}

\* entries of options['ordering']: signed names of a column, a name with two
\* signs, and a name of no column
SignedNames ==
    {Str(<<"-", "n", "a", "m", "e">>), Str(<<"+", "P">>),
     Str(<<"+", "-", "n", "a", "m", "e">>), Str(<<"-", "n", "o", "p", "e">>)}

StructureArgs ==
    [options : [columns : SeqsUpTo(StructureDeclarations, MaxColumns) \ {<<>>},
                ordering : SeqsUpTo(SignedNames, MaxOrdering),
                unsortable_columns : {<<>>, <<NAME>>, <<PRETTY>>},
                hidden_columns : {<<>>, <<NAME>>, <<PRETTY>>}],
     model : {None, RowModel}]

-----------------------------------------------------------------------------
(* The operations, each run on inputs drawn from the sets above *)

IdleFieldDefinition == field_definition = Unused /\ fd_result = Unused
IdleResolver == column = Unused /\ resolver_result = Unused
IdleColumn ==
    declaration = Unused /\ column_result = Unused /\ default_result = Unused
IdleRecord == columns = Unused /\ record_result = Unused
IdlePage ==
    /\ object_list = Unused /\ page_options = Unused /\ request = Unused
    /\ response = Unused
IdleStructure == structure_args = Unused /\ structure = Unused /\ column_info = Unused
IdleOptions ==
    /\ view_class = Unused /\ view_instances = Unused /\ hook_calls = Unused
    /\ next_id = Unused /\ seen = Unused /\ last_operation = Unused

\* get_field_definition(field_definition)
GetFieldDefinition ==
    /\ fd_result = NotCalled
    /\ fd_result' = get_field_definition(field_definition)
    /\ UNCHANGED <<field_definition, resolverVars, columnVars, recordVars, optionsVars,
                 pageVars, structureVars>>

InitFieldDefinition ==
    /\ field_definition \in RawDeclarations
    /\ fd_result = NotCalled
    /\ view = Unused /\ column_index = Unused /\ instance = Unused
    /\ IdleResolver /\ IdleColumn /\ IdleRecord /\ IdleOptions
    /\ IdlePage /\ IdleStructure

SpecFieldDefinition == InitFieldDefinition /\ [][GetFieldDefinition]_vars

\* view._get_resolver_method(column_index, column)
GetResolverMethod ==
    /\ resolver_result = NotCalled
    /\ resolver_result' = _get_resolver_method(view, column_index, column)
    /\ UNCHANGED <<fdVars, view, column_index, column, columnVars, recordVars, optionsVars,
                 pageVars, structureVars>>

InitResolver ==
    /\ view \in ResolverViews
    /\ column_index \in 0..MaxColumnIndex
    /\ column \in ResolverColumns
    /\ resolver_result = NotCalled
    /\ instance = Unused
    /\ IdleFieldDefinition /\ IdleColumn /\ IdleRecord /\ IdleOptions
    /\ IdlePage /\ IdleStructure

SpecResolver == InitResolver /\ [][GetResolverMethod]_vars

\* view.get_column_data(column_index, declaration, instance)
GetColumnData_ ==
    /\ column_result = NotCalled
    /\ column_result' = get_column_data(view, column_index, declaration, instance)
    /\ UNCHANGED <<fdVars, resolverVars, instance, declaration, default_result,
                   recordVars, optionsVars, pageVars, structureVars>>

InitColumn ==
    /\ \/ /\ view \in ColumnViews
          /\ declaration \in ColumnDeclarations
          /\ instance \in Rows
       \/ /\ view = ViewWith({}, ReturnsDefaultValue, Tuple(<<>>))
          /\ declaration \in ScalarDeclarations
          /\ instance = RowWith(<<>>)
    /\ column_index \in 0..MaxColumnIndex
    /\ column_result = NotCalled
    /\ default_result = Unused
    /\ IdleFieldDefinition /\ IdleResolver /\ IdleRecord /\ IdleOptions
    /\ IdlePage /\ IdleStructure

SpecColumn == InitColumn /\ [][GetColumnData_]_vars

\* view._get_column_data_default(instance, column)
GetColumnDataDefault ==
    /\ default_result = NotCalled
    /\ default_result' = _get_column_data_default(instance, column)
    /\ UNCHANGED <<fdVars, resolverVars, instance, declaration, column_result,
                   recordVars, optionsVars, pageVars, structureVars>>

InitDefault ==
    /\ instance \in DefaultRows
    /\ column \in DefaultColumns
    /\ default_result = NotCalled
    /\ view = Unused /\ column_index = Unused /\ resolver_result = Unused
    /\ declaration = Unused /\ column_result = Unused
    /\ IdleFieldDefinition /\ IdleRecord /\ IdleOptions
    /\ IdlePage /\ IdleStructure

SpecDefault == InitDefault /\ [][GetColumnDataDefault]_vars

\* view.get_record_data(instance), the options holding columns
GetRecordData ==
    /\ record_result = NotCalled
    /\ record_result' = get_record_data(view, columns, instance)
    /\ UNCHANGED <<fdVars, resolverVars, columnVars, columns, optionsVars,
                 pageVars, structureVars>>

InitRecord ==
    /\ view \in ColumnViews
    /\ columns \in ColumnLists
    /\ instance \in Rows
    /\ record_result = NotCalled
    /\ column_index = Unused
    /\ IdleFieldDefinition /\ IdleResolver /\ IdleColumn /\ IdleOptions
    /\ IdlePage /\ IdleStructure

SpecRecord == InitRecord /\ [][GetRecordData]_vars

Views == 1..NumViews

\* an operation of view instance v that reads the options: it goes through
\* _get_datatable_options and works on what that returns
ReadOptions(v, operation, kind) ==
    /\ view_class # Unused
    /\ view_class.kind = kind
    /\ Len(seen[v]) < MaxOperations
    /\ LET got == _get_datatable_options(
                      Heap(view_class, view_instances, hook_calls, next_id), v)
       IN  /\ view_class' = got.heap.cls
           /\ view_instances' =
                  \* apply_queryset_options keeps the LegacyDatatable it builds
                  IF operation = "apply_queryset_options" /\ Returned(got.outcome)
                  THEN [got.heap.insts EXCEPT ![v]._modern_datatable = Str(<<"d", "t">>)]
                  ELSE got.heap.insts
           /\ hook_calls' = got.heap.calls
           /\ next_id' = got.heap.id
           /\ seen' = [seen EXCEPT ![v] = Append(@, got.outcome)]
    /\ last_operation' = [last_operation EXCEPT ![v] = operation]
    /\ UNCHANGED <<fdVars, resolverVars, columnVars, recordVars, pageVars, structureVars>>

get_datatable(v) == ReadOptions(v, "get_datatable", "LegacyDatatableMixin")
apply_queryset_options(v) ==
    ReadOptions(v, "apply_queryset_options", "LegacyDatatableMixin")
paginate_object_list_(v) ==
    ReadOptions(v, "paginate_object_list", "LegacyDatatableMixin")
get_record_data_(v) == ReadOptions(v, "get_record_data", "LegacyDatatableMixin")
get_datatable_kwargs(v) ==
    ReadOptions(v, "get_datatable_kwargs", "LegacyConfigurationDatatableMixin")

InitOptions ==
    /\ view_class \in
          [kind : {"LegacyDatatableMixin", "LegacyConfigurationDatatableMixin"},
           datatable_options : {None, ClassOptions},
           model : {None, Str(<<"M">>)},
           queryset : {None, Str(<<"M">>)},
           _datatable_options : {Absent}]
    /\ view_instances = [v \in Views |-> [model |-> Absent, _datatable_options |-> Absent,
                                          _modern_datatable |-> Absent]]
    /\ hook_calls = [v \in Views |-> 0]
    /\ next_id = 1
    /\ seen = [v \in Views |-> <<>>]
    /\ last_operation = [v \in Views |-> "none"]
    /\ view = Unused /\ column_index = Unused /\ instance = Unused
    /\ IdleFieldDefinition /\ IdleResolver /\ IdleColumn /\ IdleRecord
    /\ IdlePage /\ IdleStructure

NextOptions ==
    \E v \in Views :
        \/ get_datatable(v)
        \/ apply_queryset_options(v)
        \/ paginate_object_list_(v)
        \/ get_record_data_(v)
        \/ get_datatable_kwargs(v)

SpecOptions == InitOptions /\ [][NextOptions]_vars

\* view.get_json_response_object(object_list, total, filtered_total)
GetJsonResponseObject ==
    /\ response = NotCalled
    /\ LET Got(got) == /\ response' = got.outcome
                       /\ object_list' = got.object_list
       IN  Got(get_json_response_object(view, page_options, request, object_list,
                                        request.total, request.filtered_total))
    /\ UNCHANGED <<fdVars, resolverVars, columnVars, recordVars, optionsVars,
                   page_options, request, structureVars>>

InitPage ==
    /\ view = ViewWith({}, ReturnsDefaultValue, Tuple(<<>>))
    /\ object_list \in ObjectLists
    /\ page_options \in PageOptions
    /\ request \in Requests
    /\ response = NotCalled
    /\ column_index = Unused /\ instance = Unused
    /\ IdleFieldDefinition /\ IdleResolver /\ IdleColumn /\ IdleRecord /\ IdleOptions
    /\ IdleStructure

SpecPage == InitPage /\ [][GetJsonResponseObject]_vars

\* DatatableStructure(ajax_url, options, model)
Construct ==
    /\ structure = NotCalled
    /\ structure' = DatatableStructure(structure_args.options, structure_args.model)
    /\ UNCHANGED <<fdVars, resolverVars, columnVars, recordVars, optionsVars,
                   pageVars, structure_args, column_info>>

\* structure.get_column_info()
GetColumnInfo ==
    /\ structure # NotCalled /\ structure # Unused
    /\ Returned(structure)
    /\ column_info = NotCalled
    /\ column_info' = Return(get_column_info(structure.returned))
    /\ UNCHANGED <<fdVars, resolverVars, columnVars, recordVars, optionsVars,
                   pageVars, structure_args, structure>>

InitStructure ==
    /\ structure_args \in StructureArgs
    /\ structure = NotCalled
    /\ column_info = NotCalled
    /\ view = Unused /\ column_index = Unused /\ instance = Unused
    /\ IdleFieldDefinition /\ IdleResolver /\ IdleColumn /\ IdleRecord /\ IdleOptions
    /\ IdlePage

SpecStructure == InitStructure /\ [][Construct \/ GetColumnInfo]_vars

-----------------------------------------------------------------------------
(* C7, C8: get_field_definition *)

RECURSIVE WithoutNone(_)
WithoutNone(xs) ==
    IF xs = <<>> THEN <<>>
    ELSE IF Head(xs) = None THEN WithoutNone(Tail(xs))
    ELSE <<Head(xs)>> \o WithoutNone(Tail(xs))

\* the source_fields the declaration's source element stands for
ExpectedSourceFields(source) ==
    WithoutNone(IF IsTupleOrList(source) THEN source.items ELSE <<source>>)

DeclarationItems ==
    IF IsTupleOrList(field_definition) THEN field_definition.items
    ELSE <<field_definition>>

\* C7: get_field_definition gives (None, (name,), None) for a bare name or a
\* length-1 sequence, (display_name, source_fields, None) for length 2,
\* (display_name, source_fields, resolver_override) for length 3, with
\* source_fields the source wrapped when it is no sequence and its None entries
\* removed in order; any other length raises ValueError and returns nothing.
C7_Normalization ==
    fd_result \notin {NotCalled, Unused} =>
        LET items == DeclarationItems
            n == Len(items)
        IN  IF n \in 1..3 THEN
                /\ Returned(fd_result)
                /\ fd_result.returned.pretty_name = (IF n = 1 THEN None ELSE items[1])
                /\ fd_result.returned.callback = (IF n = 3 THEN items[3] ELSE None)
                /\ fd_result.returned.fields =
                       (IF n = 1 THEN WithoutNone(<<items[1]>>)
                        ELSE ExpectedSourceFields(items[2]))
                /\ \A k \in 1..Len(fd_result.returned.fields) :
                       fd_result.returned.fields[k] # None
            ELSE fd_result = Raise("ValueError")

\* a 3-element declaration whose source list holds None entries has been
\* normalized
C7_Witness ==
    /\ field_definition = Tuple(<<A_, List(<<None, B_, None, A_>>), Echo>>)
    /\ fd_result = Return(FieldDefinitionTuple(A_, <<B_, A_>>, Echo))

\* C8: every ColumnDefinition get_field_definition returns has a non-empty
\* display_name or non-empty source_fields.
C8_NameOrSource ==
    (fd_result \notin {NotCalled, Unused} /\ Returned(fd_result)) =>
        \/ Truthy(fd_result.returned.pretty_name)
        \/ fd_result.returned.fields # <<>>

-----------------------------------------------------------------------------
(* C1, C2: _get_resolver_method *)

\* the name the documentation gives the name-based method: the display name
\* when there is one, the first source field otherwise
DocumentedName(col) ==
    IF Truthy(col.pretty_name) THEN col.pretty_name.chars
    ELSE IF col.fields # <<>> THEN col.fields[1].chars
    ELSE <<>>

HasDocumentedName(col) == Truthy(col.pretty_name) \/ col.fields # <<>>

\* C1: the dispatch is first-match-wins: a set resolver_override (the callable
\* itself, or the view's method of that name) and custom; else the view's
\* get_column_<mangled_name>_data, custom; else the view's
\* get_column_<i>_data, custom; else the default resolver, not custom.
C1_DispatchOrder ==
    resolver_result \notin {NotCalled, Unused} =>
        LET by_name == GetColumnData(Mangle(DocumentedName(column)))
            by_index == GetColumnData(Decimal(column_index))
            cb == column.callback
            out == resolver_result.outcome
        IN  IF Truthy(cb) THEN
                IF cb.ty = "function" THEN out = Return(Resolver(TRUE, cb))
                ELSE IF HasMethod(view, cb.chars)
                     THEN out = Return(Resolver(TRUE, Method(cb.chars)))
                     ELSE out = Raise("AttributeError")
            ELSE IF HasDocumentedName(column) /\ HasMethod(view, by_name)
                 THEN out = Return(Resolver(TRUE, Method(by_name)))
            ELSE IF HasMethod(view, by_index)
                 THEN out = Return(Resolver(TRUE, Method(by_index)))
            ELSE out = Return(Resolver(FALSE, DefaultResolver))

\* C2: without resolver_override the name-based method looked up is
\* get_column_<M>_data, M the mangling of display_name when it is non-empty
\* and of the first source field when it is absent or empty; every run of
\* non-alphanumeric/underscore characters becomes one underscore.
C2_LookupName ==
    (/\ resolver_result \notin {NotCalled, Unused}
     /\ ~Truthy(column.callback)
     /\ HasDocumentedName(column)) =>
        /\ resolver_result.lookups # <<>>
        /\ resolver_result.lookups[1] = GetColumnData(Mangle(DocumentedName(column)))
        /\ (column.pretty_name = REGION =>
               resolver_result.lookups[1] = GetColumnData(<<"R", "e", "g", "i", "o", "n", "_", "S", "u", "b", "d", "i", "v", "i", "s", "i", "o", "n", "_", "T", "y", "p", "e">>))
        /\ ((column.pretty_name = None /\ column.fields = <<STREET_NAME>>) =>
               resolver_result.lookups[1] = GetColumnData(<<"s", "t", "r", "e", "e", "t", "_", "n", "a", "m", "e">>))

-----------------------------------------------------------------------------
(* C3, C4: get_column_data *)

ColumnCalled == column_result \notin {NotCalled, Unused}

\* C3: a missing attribute or related object at any segment of a source path
\* resolves to None, no exception propagates out of the default resolution,
\* and a custom resolver is handed default_value = None rather than an error.
\* (Every declaration of SpecColumn is well formed and every override
\* resolves, so an exception can only come from the attribute chain.)
C3_NoException ==
    ColumnCalled => Returned(column_result.outcome)

\* the pairs get_column_data returned
ReturnedPairs ==
    {column_result.calls[k] : k \in {j \in 1..Len(column_result.calls) :
                                       column_result.calls[j].call = "return"}}

-----------------------------------------------------------------------------
(* C5: get_record_data and the preload hook *)

RecordCalled == record_result \notin {NotCalled, Unused}

CallsOf(kind) ==
    {k \in 1..Len(record_result.calls) : record_result.calls[k].call = kind}

\* the convention by which the hook's result reaches a resolver
PassedAsDocumented(c) ==
    CASE view.preload.ty = "dict" ->
            /\ c.args = <<>>
            /\ \A key \in DOMAIN view.preload.map :
                   key \in DOMAIN c.kwargs /\ c.kwargs[key] = view.preload.map[key]
      [] IsTupleOrList(view.preload) -> c.args = view.preload.items
      [] OTHER -> c.args = <<view.preload>>

\* C5: preload_record_data is invoked exactly once per row get_record_data
\* assembles, before any column of the row is resolved, however many columns
\* there are and however many are custom; its result reaches custom resolvers
\* as keyword arguments (a mapping), positional arguments (a sequence) or one
\* positional argument (anything else).
C5_PreloadOncePerRow ==
    (RecordCalled /\ Returned(record_result.outcome)) =>
        /\ Cardinality(CallsOf("preload_record_data")) = 1
        /\ record_result.calls[1] = PreloadCall
        /\ \A k \in CallsOf("resolver") : PassedAsDocumented(record_result.calls[k])

-----------------------------------------------------------------------------
(* C6: the options are computed once per view instance *)

\* the options the operations of v were handed (a call that raised saw none)
OptionsSeen(v) == {seen[v][k].returned : k \in {j \in 1..Len(seen[v]) : Returned(seen[v][j])}}

-----------------------------------------------------------------------------
(* C9: pagination and the response *)

\* the response holds one row per record of the page, in order, and the two
\* counts as they were supplied
C9_Response ==
    (response # NotCalled /\ response # Unused) =>
        LET n == Len(object_list)
            unpaged == page_options.page_length = -1
            first == IF unpaged THEN 0 ELSE page_options.start_offset
            last == IF unpaged THEN n
                    ELSE Min(page_options.start_offset + page_options.page_length, n)
            count == IF last > first THEN last - first ELSE 0
        IN  /\ Returned(response)
            /\ Len(response.returned.aaData) = count
            /\ \A k \in 1..count :
                  /\ response.returned.aaData[k].DT_RowId = object_list[first + k].pk
                  /\ response.returned.aaData[k] =
                         get_record_data(view, page_options.columns,
                                         object_list[first + k]).outcome.returned
            /\ response.returned.iTotalRecords = request.total
            /\ response.returned.iTotalDisplayRecords = request.filtered_total

-----------------------------------------------------------------------------
(* C10: the structure descriptor *)

InfoCalled == column_info # NotCalled /\ column_info # Unused

NormalizedColumn(k) == get_field_definition(structure_args.options.columns[k]).returned

NamesModelField(col) ==
    /\ col.fields # <<>>
    /\ structure_args.model # None
    /\ col.fields[1].chars \in DOMAIN structure_args.model.fields

\* sortable, visible and sort attribute follow from ordering_name, and the
\* columns come in declaration order
AttributesFollow ==
    /\ Len(column_info.returned) = Len(structure_args.options.columns)
    /\ \A k \in 1..Len(column_info.returned) :
          LET info == column_info.returned[k]
              col == NormalizedColumn(k)
          IN  /\ (info.attrs["data-sortable"] = Str(<<"t", "r", "u", "e">>)) <=>
                     ~InList(info.ordering_name, structure_args.options.unsortable_columns)
              /\ (info.attrs["data-visible"] = Str(<<"t", "r", "u", "e">>)) <=>
                     ~InList(info.ordering_name, structure_args.options.hidden_columns)
              /\ ("data-sorting" \in DOMAIN info.attrs) <=>
                     (/\ info.ordering_name # None
                      /\ info.ordering_name.chars \in DOMAIN structure.returned.ordering)
              /\ (Truthy(col.pretty_name) => info.pretty_name = col.pretty_name)

\* C10: ordering_name is the first source field only when that field names a
\* real attribute of the row type and no display name was given, and the
\* display_name in every other case; sortable iff ordering_name is not in
\* unsortable_columns, visible iff it is not in hidden_columns, a sort
\* attribute iff it is a key of the ColumnOrdering mapping; columns are
\* emitted in declaration order.
C10_OrderingNameUnlessDisplay ==
    InfoCalled =>
        /\ AttributesFollow
        /\ \A k \in 1..Len(column_info.returned) :
              LET col == NormalizedColumn(k)
              IN  column_info.returned[k].ordering_name =
                      (IF NamesModelField(col) /\ ~Truthy(col.pretty_name)
                       THEN col.fields[1] ELSE col.pretty_name)

\* C10 as amended: ordering_name is the first source field whenever that
\* field names a real attribute of the row type, with or without a display
\* name, and the display_name otherwise; the rest as in C10.
C10_OrderingName ==
    InfoCalled =>
        /\ AttributesFollow
        /\ \A k \in 1..Len(column_info.returned) :
              LET col == NormalizedColumn(k)
              IN  column_info.returned[k].ordering_name =
                      (IF NamesModelField(col) THEN col.fields[1] ELSE col.pretty_name)

\* a column with a display name over a model field is ordered by the field:
\* hidden and sorted under the field's name while another column, ordered by
\* its display name, is neither
C10_Witness ==
    /\ InfoCalled
    /\ structure_args.model # None
    /\ structure_args.options.columns = <<Tuple(<<PRETTY, NAME>>), Tuple(<<PRETTY, ZZ>>)>>
    /\ structure_args.options.hidden_columns = <<NAME>>
    /\ column_info.returned[1].ordering_name = NAME
    /\ column_info.returned[1].attrs["data-visible"] = Str(<<"f", "a", "l", "s", "e">>)
    /\ "data-sorting" \in DOMAIN column_info.returned[1].attrs
    /\ column_info.returned[2].ordering_name = PRETTY
    /\ column_info.returned[2].attrs["data-visible"] = Str(<<"t", "r", "u", "e">>)

-----------------------------------------------------------------------------
(* C11: the ColumnOrdering mapping built at construction *)

Constructed == structure # NotCalled /\ structure # Unused

RECURSIVE Unsigned(_)
\* a signed name without its leading + and - characters
Unsigned(cs) ==
    IF cs = <<>> \/ Head(cs) \notin {"+", "-"} THEN cs ELSE Unsigned(Tail(cs))

\* the entry at position p (from 0) of the active ordering option
OrderingEntry(p) == structure_args.options.ordering[p + 1].chars

\* the column index the entry at position p resolves to, -1 for none
ResolvedIndex(p) ==
    get_column_index(structure_args.options, structure_args.model,
                     Unsigned(OrderingEntry(p)))

\* what the mapping is to hold for the entry at position p
ExpectedOrdering(p) ==
    [order |-> p,
     column_index |-> ResolvedIndex(p),
     direction |-> IF Head(OrderingEntry(p)) = "-" THEN "desc" ELSE "asc"]

Positions == 0..(Len(structure_args.options.ordering) - 1)

\* no later entry of the option has the same sign-stripped name
LastOfItsName(p) ==
    \A q \in Positions : q > p => Unsigned(OrderingEntry(q)) # Unsigned(OrderingEntry(p))

\* construction never raises, and the mapping has a key for exactly the
\* sign-stripped names of the entries that resolve to a column
KeysAreResolvedNames ==
    /\ Returned(structure)
    /\ DOMAIN structure.returned.ordering =
          {Unsigned(OrderingEntry(p)) : p \in {q \in Positions : ResolvedIndex(q) # -1}}

\* C11: for each signed name at position p of the ordering option, if its
\* sign-stripped name resolves to column index k the mapping records
\* (p, k, 'desc' if the entry has a leading '-' else 'asc') for that entry; an
\* entry that resolves to no column is skipped without raising and without
\* affecting the positions recorded for the others.
C11_EveryEntryRecorded ==
    Constructed =>
        /\ KeysAreResolvedNames
        /\ \A p \in Positions :
              ResolvedIndex(p) # -1 =>
                  structure.returned.ordering[Unsigned(OrderingEntry(p))]
                      = ExpectedOrdering(p)

\* C11 as amended: the mapping is keyed by the sign-stripped name, so of the
\* entries with one sign-stripped name it records the last one; the rest as
\* in C11.
C11_LastEntryRecorded ==
    Constructed =>
        /\ KeysAreResolvedNames
        /\ \A p \in Positions :
              (ResolvedIndex(p) # -1 /\ LastOfItsName(p)) =>
                  structure.returned.ordering[Unsigned(OrderingEntry(p))]
                      = ExpectedOrdering(p)

\* an entry naming no column comes first and is skipped, and the entry after
\* it is recorded at its own position 1, for the column at index 1, descending
C11_Witness ==
    /\ Constructed
    /\ Returned(structure)
    /\ structure_args.model # None
    /\ structure_args.options.columns = <<ZZ, NAME>>
    /\ structure_args.options.ordering =
          <<Str(<<"-", "n", "o", "p", "e">>), Str(<<"-", "n", "a", "m", "e">>)>>
    /\ DOMAIN structure.returned.ordering = {NAME.chars}
    /\ structure.returned.ordering[NAME.chars] =
          [order |-> 1, column_index |-> 1, direction |-> "desc"]

-----------------------------------------------------------------------------
(* C12: what the default resolver returns *)

DefaultCalled == default_result # NotCalled /\ default_result # Unused

\* the value source field k of the column resolved to, a model instance as
\* its text
FieldValue(k) ==
    LET r == reduce(instance, split(column.fields[k].chars)).returned
    IN  IF r.ty = "object" /\ r.is_model THEN Str(r.unicode) ELSE r

\* the positions of the source fields whose value is not None, in declared
\* order
Remaining == SelectSeq([k \in 1..Len(column.fields) |-> k],
                       LAMBDA k : FieldValue(k) # None)

RECURSIVE SpacedFrom(_)
\* the texts of the remaining values from the j-th on, one space between two
SpacedFrom(j) ==
    IF j > Len(Remaining) THEN <<>>
    ELSE (IF j = 1 THEN <<>> ELSE <<" ">>)
         \o text_type(FieldValue(Remaining[j])) \o SpacedFrom(j + 1)

\* C12: the default resolver collects one value per source field in declared
\* order, skipping the fields that resolved to None; exactly one remaining
\* value is returned as is; several are stringified and joined with a single
\* space; the search component of the returned pair is identical to its
\* display component.
C12_DefaultPair ==
    (DefaultCalled /\ Returned(default_result)) =>
        LET pair == default_result.returned
        IN  /\ pair.ty = "tuple" /\ Len(pair.items) = 2
            /\ pair.items[2] = pair.items[1]
            /\ Len(Remaining) = 1 => pair.items[1] = FieldValue(Remaining[1])
            /\ Len(Remaining) > 1 => pair.items[1] = Str(SpacedFrom(1))

\* three source fields, the one in the middle None: the two remaining values,
\* one text and one method that alters data, come back joined by one space
C12_Witness ==
    /\ DefaultCalled
    /\ Returned(default_result)
    /\ column.fields = <<PATH_N, PATH_AB, PATH_M>>
    /\ instance.attrs[<<"n">>] = Str(<<"x">>)
    /\ instance.attrs[<<"a">>].attrs[<<"b">>] = None
    /\ instance.attrs[<<"m">>] = Callable(Str(<<"y">>), "True", FALSE)
    /\ default_result.returned.items[1] = Str(<<"x", " ">> \o ReprText)

====
